---- MODULE Spec2Model ----
(***************************************************************************)
(* Model of the FMC API client (src/src/fmc_mcp/client.py): the token      *)
(* bucket RateLimiter, the connection semaphore, the authentication state  *)
(* of FMCClient, the request dispatch FMCClient._request with its 401 and  *)
(* 429 retries, the fetchers built on it (get_json, get_all_items and its  *)
(* pagination, get_deployable_devices) and the deployment-status tool of   *)
(* src/src/fmc_mcp/tools.py.                                               *)
(*                                                                         *)
(* Time is measured in whole seconds.  The rate limiter's float token      *)
(* count is kept in sixtieths of a token (TOKEN == 60 units): the client   *)
(* builds the limiter with refill_rate = capacity / 60 tokens per second,  *)
(* so one second refills exactly `capacity` units.  time.monotonic() and   *)
(* last_refill appear only through their difference `elapsed`; a sleeping  *)
(* task keeps the time left until it may wake in `wake`.                   *)
(***************************************************************************)
EXTENDS Integers, Sequences, FiniteSets, TLC

\* ------------------------------------------------------------------ bounds
NumTasks == 2
MaxRateLimit == 2
MaxConnections == 1
MaxTokenId == 2
TickStep == 20
MaxDevices == 2
MaxPages == 2

\* ------------------------------------------------------- program constants
TOKEN == 60
REFILL_WINDOW == 60
RETRY_AFTER_30 == <<"3", "0">>
DEFAULT_RETRY_AFTER == <<"6", "0">>
max_refreshes == 3
DEFAULT_DOMAIN == "e276abec-e0f2-11e3-8169-6d9ed49b625f"

Tasks == 1..NumTasks
NoTask == 0
None == "None"

Min(a, b) == IF a < b THEN a ELSE b
Max(a, b) == IF a > b THEN a ELSE b
CeilDiv(a, b) == (a + b - 1) \div b

VARIABLES
  \* FMCSettings
  fmc_rate_limit, fmc_max_connections, fmc_domain_uuid,
  \* RateLimiter
  tokens, elapsed, lock,
  \* FMCClient
  client, access_token, refresh_token, refresh_count, domain_uuid, permits,
  connecting,
  \* one logical task per element of Tasks
  pc, response, headers, wake,
  \* what a task did in its current call (observations, never read by the code)
  sent, seen, refreshes, posts, backoffs, retry_after, slept, outcome, disturbed,
  acquired,
  \* the last call the owner made on the client, and whether it found work to do
  last_call,
  \* the controller's enumerable items and the count its paging envelope declares
  inventory, paging,
  \* the fetcher each task is running: get_all_items' offset and accumulator,
  \* the page requests it made, the pages it received, and what it gave back
  call, offset, all_items, page_requests, received, result

settingsVars == <<fmc_rate_limit, fmc_max_connections, fmc_domain_uuid>>
limiterVars == <<tokens, elapsed, lock>>
credVars == <<access_token, refresh_token, refresh_count, domain_uuid>>
clientVars == <<client, access_token, refresh_token, refresh_count, domain_uuid,
                permits, connecting>>
obsVars == <<sent, seen, refreshes, posts, backoffs, retry_after, slept, outcome,
             disturbed>>
pageVars == <<inventory, paging, call, offset, all_items, page_requests, received,
              result>>
vars == <<fmc_rate_limit, fmc_max_connections, fmc_domain_uuid,
          tokens, elapsed, lock,
          client, access_token, refresh_token, refresh_count, domain_uuid, permits,
          connecting,
          pc, response, headers, wake,
          sent, seen, refreshes, posts, backoffs, retry_after, slept, outcome,
          disturbed, acquired, last_call,
          inventory, paging, call, offset, all_items, page_requests, received, result>>

\* ------------------------------------------------------------- RateLimiter
capacity == fmc_rate_limit

\* RateLimiter._refill: min(capacity, tokens + elapsed * refill_rate), in units
RefillNoCap(tok, el) == tok + el * capacity
Refill(tok, el) == Min(capacity * TOKEN, tok + el * capacity)

\* the loop test of acquire: while self.tokens < 1
NeedWaitLoose(tok) == tok <= TOKEN
NeedWait(tok) == tok < TOKEN

\* wait_time = (1 - self.tokens) / self.refill_rate, in seconds
wait_time(tok) == CeilDiv(TOKEN - tok, capacity)

\* asyncio.Lock: `async with self._lock` proceeds only while nobody holds it
LockOpen == TRUE
LockFree == lock = NoTask

\* wait_time divides by refill_rate = capacity / 60, which is 0.0 for a
\* configured rate limit of 0: ZeroDivisionError
ZeroRate == capacity = 0

\* The body of acquire from the refill on: either the task goes to sleep
\* holding the lock, or the division of wait_time raises and the lock is
\* left, or it takes one token, leaves the lock and returns.
RefillAndTake(t) ==
  LET tok == Refill(tokens, elapsed) IN
  /\ elapsed' = 0
  /\ IF NeedWait(tok)
       THEN IF ZeroRate
              THEN /\ tokens' = tok
                   /\ lock' = NoTask
                   /\ wake' = wake
                   /\ pc' = [pc EXCEPT ![t] = "done"]
                   /\ outcome' = [outcome EXCEPT ![t] = "ZeroDivisionError"]
                   /\ acquired' = acquired
              ELSE /\ tokens' = tok
                   /\ lock' = t
                   /\ wake' = [wake EXCEPT ![t] = wait_time(tok)]
                   /\ pc' = [pc EXCEPT ![t] = "rl_sleep"]
                   /\ outcome' = outcome
                   /\ acquired' = acquired
       ELSE /\ tokens' = tok - TOKEN
            /\ lock' = NoTask
            /\ wake' = wake
            /\ pc' = [pc EXCEPT ![t] = "sem_wait"]
            /\ outcome' = outcome
            /\ acquired' = Min(acquired + 1, MaxRateLimit + 2)

\* acquire(): entering `async with self._lock`, first refill
RLEnterNoToken(t) ==
  /\ pc[t] = "rl_lock"
  /\ LockFree
  /\ pc' = [pc EXCEPT ![t] = "sem_wait"]
  /\ UNCHANGED <<settingsVars, pageVars, last_call, limiterVars, clientVars, response,
                 headers, wake, obsVars, acquired>>

RLEnter(t) ==
  /\ pc[t] = "rl_lock"
  /\ LockFree
  /\ RefillAndTake(t)
  /\ UNCHANGED <<settingsVars, pageVars, last_call, clientVars, response, headers, sent, seen,
                 refreshes, posts, backoffs, retry_after, slept, disturbed>>

\* acquire(): asyncio.sleep(wait_time) is over, refill again and re-test
RLWake(t) ==
  /\ pc[t] = "rl_sleep"
  /\ wake[t] = 0
  /\ RefillAndTake(t)
  /\ UNCHANGED <<settingsVars, pageVars, last_call, clientVars, response, headers, sent, seen,
                 refreshes, posts, backoffs, retry_after, slept, disturbed>>

\* d seconds pass: the monotonic clock advances, sleepers get closer to waking
Tick(d) ==
  /\ \/ elapsed < REFILL_WINDOW
     \/ \E t \in Tasks : wake[t] > 0
  /\ elapsed' = Min(REFILL_WINDOW, elapsed + d)
  /\ wake' = [t \in Tasks |-> Max(0, wake[t] - d)]
  /\ UNCHANGED <<settingsVars, pageVars, last_call, tokens, lock, clientVars, pc, response, headers,
                 obsVars, acquired>>

\* A caller of the bare rate limiter: await limiter.acquire()
CallAcquire(t) ==
  /\ pc[t] = "idle"
  /\ pc' = [pc EXCEPT ![t] = "rl_lock"]
  /\ UNCHANGED <<settingsVars, pageVars, last_call, limiterVars, clientVars, response, headers, wake,
                 obsVars, acquired>>

\* acquire() has returned to that caller
AcquireReturn(t) ==
  /\ pc[t] = "sem_wait"
  /\ pc' = [pc EXCEPT ![t] = "idle"]
  /\ UNCHANGED <<settingsVars, pageVars, last_call, limiterVars, clientVars, response, headers, wake,
                 obsVars, acquired>>

\* --------------------------------------------------------------- server
\* What the controller may answer.  Tokens are numbered: access token k and
\* refresh token k are the pair the server issued together; NoToken is a
\* missing header (Python None).
NoToken == 0
TokenIds == 1..MaxTokenId
DomainHeaders == {None, "D1", "D2"}
TokenPairs == {<<k, k>> : k \in TokenIds} \cup {<<NoToken, 1>>, <<1, NoToken>>}
AbsentHeader == [present |-> FALSE, text |-> <<>>]
RetryAfterHeaders == {AbsentHeader,
                      [present |-> TRUE, text |-> <<"2", "0">>],
                      [present |-> TRUE, text |-> <<"s", "o", "o", "n">>]}

\* A status of NoResponse stands for an HTTP call that raised (DNS, TLS, reset)
NoResponse == 0
Statuses == {200, 401, 403, 429, 500}
DataReply(s, h) == [status |-> s, retry |-> h]
DataResponses == {DataReply(s, AbsentHeader) : s \in (Statuses \cup {NoResponse}) \ {429}}
                 \cup {DataReply(429, h) : h \in RetryAfterHeaders}
AuthReply(s, a, r, d) == [status |-> s, access |-> a, refresh |-> r, domain |-> d]
AuthFailures == {AuthReply(s, NoToken, NoToken, None) : s \in {401, NoResponse}}
AuthResponses == {AuthReply(204, p[1], p[2], d) : p \in TokenPairs, d \in DomainHeaders}
                 \cup AuthFailures
RefreshResponses == {AuthReply(204, p[1], p[2], None) : p \in TokenPairs}
                    \cup AuthFailures

\* int(text): a decimal literal with an optional sign, else ValueError
Digits == {"0", "1", "2", "3", "4", "5", "6", "7", "8", "9"}
DigitVal(c) == CASE c = "0" -> 0 [] c = "1" -> 1 [] c = "2" -> 2 [] c = "3" -> 3
                 [] c = "4" -> 4 [] c = "5" -> 5 [] c = "6" -> 6 [] c = "7" -> 7
                 [] c = "8" -> 8 [] c = "9" -> 9
RECURSIVE DecVal(_)
DecVal(s) == IF s = <<>> THEN 0
             ELSE 10 * DecVal(SubSeq(s, 1, Len(s) - 1)) + DigitVal(s[Len(s)])
IsSign(c) == c \in {"-", "+"}
Unsigned(s) == IF s # <<>> /\ IsSign(s[1]) THEN Tail(s) ELSE s
IsInt(s) == /\ Unsigned(s) # <<>>
            /\ \A i \in 1..Len(Unsigned(s)) : Unsigned(s)[i] \in Digits
int(s) == IF s # <<>> /\ s[1] = "-" THEN 0 - DecVal(Unsigned(s)) ELSE DecVal(Unsigned(s))

\* response.headers.get("Retry-After", "60")
RetryAfterText(h) == IF h.present THEN h.text ELSE DEFAULT_RETRY_AFTER

\* ----------------------------------------------------- FMCClient._request
\* Leaving `async with self._connection_semaphore` always gives the permit back.
Release(k) == k + 1

\* return response
ReturnResponse(t) ==
  /\ pc' = [pc EXCEPT ![t] = "done"]
  /\ outcome' = [outcome EXCEPT ![t] = "response"]
  /\ permits' = Release(permits)
  /\ sent' = sent

\* an exception leaves _request
RaiseHoldingPermit(t, e) ==
  /\ pc' = [pc EXCEPT ![t] = "done"]
  /\ outcome' = [outcome EXCEPT ![t] = e]
  /\ permits' = permits
  /\ sent' = sent

Raise(t, e) ==
  /\ pc' = [pc EXCEPT ![t] = "done"]
  /\ outcome' = [outcome EXCEPT ![t] = e]
  /\ permits' = Release(permits)
  /\ sent' = sent

\* await self._client.request(method, path, headers=headers, **kwargs)
Purpose(next) == CASE next = "http1" -> "first"
                   [] next = "http2" -> "retry401"
                   [] next = "http3" -> "retry429"

SendData(t, next) ==
  IF client
    THEN /\ pc' = [pc EXCEPT ![t] = next]
         /\ sent' = [sent EXCEPT ![t] = Append(@, Purpose(next))]
         /\ outcome' = outcome
         /\ permits' = permits
    ELSE Raise(t, "AttributeError")

\* self._client.post(...generatetoken) from _authenticate, called from the
\* place `next` of _refresh_auth_token
SendAuth(t, next) ==
  IF client
    THEN /\ pc' = [pc EXCEPT ![t] = next]
         /\ posts' = [posts EXCEPT ![t] = Append(@, "generatetoken")]
         /\ outcome' = outcome
         /\ permits' = permits
    ELSE /\ posts' = posts
         /\ pc' = [pc EXCEPT ![t] = "done"]
         /\ outcome' = [outcome EXCEPT ![t] = "RuntimeError"]
         /\ permits' = Release(permits)

\* headers = kwargs.pop("headers", {}): the caller may pass an access-token
\* header of its own
CallerHeaders == {NoToken, 1}

\* _request entry: the client check, then on to the rate limiter
RequestUnchecked(t) ==
  /\ pc[t] = "idle"
  /\ pc' = [pc EXCEPT ![t] = "rl_lock"]
  /\ outcome' = outcome
  /\ \E h \in CallerHeaders : headers' = [headers EXCEPT ![t] = h]
  /\ UNCHANGED <<settingsVars, pageVars, last_call, limiterVars, clientVars, response, wake,
                 sent, seen, refreshes, posts, backoffs, retry_after, slept,
                 disturbed, acquired>>

Request(t) ==
  /\ pc[t] = "idle"
  /\ IF client
       THEN /\ pc' = [pc EXCEPT ![t] = "rl_lock"]
            /\ outcome' = outcome
            /\ \E h \in CallerHeaders : headers' = [headers EXCEPT ![t] = h]
       ELSE /\ pc' = [pc EXCEPT ![t] = "done"]
            /\ outcome' = [outcome EXCEPT ![t] = "RuntimeError"]
            /\ headers' = headers
  /\ UNCHANGED <<settingsVars, pageVars, last_call, limiterVars, clientVars, response, wake,
                 sent, seen, refreshes, posts, backoffs, retry_after, slept,
                 disturbed, acquired>>

\* `async with self._connection_semaphore`, attach the token, first call
\* asyncio.Semaphore: acquire proceeds only while a permit is left
PermitAlways == TRUE
PermitFree == permits > 0

SemAcquireNoPermit(t) ==
  /\ pc[t] = "sem_wait"
  /\ headers' = [headers EXCEPT ![t] = access_token]
  /\ IF client
       THEN /\ pc' = [pc EXCEPT ![t] = "http1"]
            /\ sent' = [sent EXCEPT ![t] = Append(@, Purpose("http1"))]
            /\ outcome' = outcome
       ELSE /\ pc' = [pc EXCEPT ![t] = "done"]
            /\ sent' = sent
            /\ outcome' = [outcome EXCEPT ![t] = "AttributeError"]
  /\ UNCHANGED <<settingsVars, pageVars, last_call, limiterVars, clientVars, response,
                 wake, seen, refreshes, posts, backoffs, retry_after, slept,
                 disturbed, acquired>>

SemAcquire(t) ==
  /\ pc[t] = "sem_wait"
  /\ PermitFree
  /\ headers' = [headers EXCEPT ![t] = access_token]
  /\ IF client
       THEN /\ pc' = [pc EXCEPT ![t] = "http1"]
            /\ sent' = [sent EXCEPT ![t] = Append(@, Purpose("http1"))]
            /\ permits' = permits - 1
            /\ outcome' = outcome
       ELSE /\ pc' = [pc EXCEPT ![t] = "done"]
            /\ sent' = sent
            /\ permits' = Release(permits - 1)
            /\ outcome' = [outcome EXCEPT ![t] = "AttributeError"]
  /\ UNCHANGED <<settingsVars, pageVars, last_call, limiterVars, client, credVars, connecting, response,
                 wake, seen, refreshes, posts, backoffs, retry_after, slept,
                 disturbed, acquired>>

\* if response.status_code == 401: _refresh_auth_token() up to its first await
Handle401(t) ==
  /\ response' = [response EXCEPT ![t] = 401]
  /\ seen' = [seen EXCEPT ![t] = Append(@, 401)]
  /\ refreshes' = [refreshes EXCEPT ![t] = @ + 1]
  /\ \/ /\ ~client \/ refresh_token = NoToken
        /\ headers' = [headers EXCEPT ![t] = access_token]
        /\ SendData(t, "http2")
        /\ posts' = posts
     \/ /\ client /\ refresh_token # NoToken
        /\ refresh_count >= max_refreshes
        /\ SendAuth(t, "auth_max")
        /\ UNCHANGED <<headers, sent>>
     \/ /\ client /\ refresh_token # NoToken
        /\ refresh_count < max_refreshes
        /\ pc' = [pc EXCEPT ![t] = "refresh"]
        /\ posts' = [posts EXCEPT ![t] = Append(@, "refreshtoken")]
        /\ UNCHANGED <<headers, sent, outcome, permits>>
  /\ UNCHANGED <<settingsVars, pageVars, last_call, limiterVars, client, credVars, connecting, wake,
                 backoffs, retry_after, slept, disturbed, acquired>>

\* if response.status_code == 429: parse Retry-After and go to sleep
Handle429(t, h) ==
  /\ response' = [response EXCEPT ![t] = 429]
  /\ seen' = [seen EXCEPT ![t] = Append(@, 429)]
  /\ retry_after' = [retry_after EXCEPT ![t] = Append(@, h)]
  /\ backoffs' = [backoffs EXCEPT ![t] = @ + 1]
  /\ IF IsInt(RetryAfterText(h))
       THEN /\ slept' = [slept EXCEPT ![t] = Append(@, int(RetryAfterText(h)))]
            /\ wake' = [wake EXCEPT ![t] = Max(0, int(RetryAfterText(h)))]
            /\ pc' = [pc EXCEPT ![t] = "backoff"]
            /\ UNCHANGED <<outcome, permits, sent>>
       ELSE /\ Raise(t, "ValueError")
            /\ UNCHANGED <<slept, wake>>
  /\ UNCHANGED <<settingsVars, pageVars, last_call, limiterVars, client, credVars, connecting, headers,
                 refreshes, posts, disturbed, acquired>>

\* any other status: the response is returned as it is
HandleOther(t, s) ==
  /\ response' = [response EXCEPT ![t] = s]
  /\ seen' = [seen EXCEPT ![t] = Append(@, s)]
  /\ ReturnResponse(t)
  /\ UNCHANGED <<settingsVars, pageVars, last_call, limiterVars, client, credVars, connecting, headers,
                 wake, refreshes, posts, backoffs, retry_after, slept, disturbed,
                 acquired>>

\* the HTTP call itself raised: the exception propagates unchanged
TransportError(t) ==
  /\ Raise(t, "TransportError")
  /\ UNCHANGED <<settingsVars, pageVars, last_call, limiterVars, client, credVars, connecting, response,
                 headers, wake, seen, refreshes, posts, backoffs, retry_after, slept,
                 disturbed, acquired>>

\* the first call is answered
Respond1NoRefresh(t, r) ==
  /\ pc[t] = "http1"
  /\ \/ r.status = NoResponse /\ TransportError(t)
     \/ r.status = 429 /\ Handle429(t, r.retry)
     \/ r.status \notin {NoResponse, 429} /\ HandleOther(t, r.status)

Respond1(t, r) ==
  /\ pc[t] = "http1"
  /\ \/ r.status = NoResponse /\ TransportError(t)
     \/ r.status = 401 /\ Handle401(t)
     \/ r.status = 429 /\ Handle429(t, r.retry)
     \/ r.status \notin {NoResponse, 401, 429} /\ HandleOther(t, r.status)

\* the call retried after the 401 is answered
Respond2Again(t, r) ==
  /\ pc[t] = "http2"
  /\ \/ r.status = NoResponse /\ TransportError(t)
     \/ r.status = 401 /\ Handle401(t)
     \/ r.status = 429 /\ Handle429(t, r.retry)
     \/ r.status \notin {NoResponse, 401, 429} /\ HandleOther(t, r.status)

Respond2(t, r) ==
  /\ pc[t] = "http2"
  /\ \/ r.status = NoResponse /\ TransportError(t)
     \/ r.status = 429 /\ Handle429(t, r.retry)
     \/ r.status \notin {NoResponse, 429} /\ HandleOther(t, r.status)

\* asyncio.sleep(retry_after) is over: the call is retried
BackoffWake(t) ==
  /\ pc[t] = "backoff"
  /\ wake[t] = 0
  /\ SendData(t, "http3")
  /\ UNCHANGED <<settingsVars, pageVars, last_call, limiterVars, client, credVars, connecting, response,
                 headers, wake, seen, refreshes, posts, backoffs, retry_after, slept,
                 disturbed, acquired>>

\* the call retried after the 429 is answered
Respond3Again(t, r) ==
  /\ pc[t] = "http3"
  /\ \/ r.status = NoResponse /\ TransportError(t)
     \/ r.status = 429 /\ Handle429(t, r.retry)
     \/ r.status \notin {NoResponse, 429} /\ HandleOther(t, r.status)

Respond3(t, r) ==
  /\ pc[t] = "http3"
  /\ \/ r.status = NoResponse /\ TransportError(t)
     \/ r.status # NoResponse /\ HandleOther(t, r.status)

\* the caller has its result; the task is free for the next call
Return(t) ==
  /\ pc[t] = "done"
  /\ pc' = [pc EXCEPT ![t] = "idle"]
  /\ response' = [response EXCEPT ![t] = 0]
  /\ headers' = [headers EXCEPT ![t] = NoToken]
  /\ sent' = [sent EXCEPT ![t] = <<>>]
  /\ seen' = [seen EXCEPT ![t] = <<>>]
  /\ retry_after' = [retry_after EXCEPT ![t] = <<>>]
  /\ refreshes' = [refreshes EXCEPT ![t] = 0]
  /\ posts' = [posts EXCEPT ![t] = <<>>]
  /\ backoffs' = [backoffs EXCEPT ![t] = 0]
  /\ slept' = [slept EXCEPT ![t] = <<>>]
  /\ outcome' = [outcome EXCEPT ![t] = "none"]
  /\ disturbed' = [disturbed EXCEPT ![t] = FALSE]
  /\ UNCHANGED <<settingsVars, pageVars, last_call, limiterVars, clientVars, wake, acquired>>

\* ------------------------------------------- authentication and lifecycle
\* _authenticate after a 204: store the tokens, reset the counter, discover
\* the domain when none is set
StoreAuthOverwrite(h) ==
  /\ access_token' = h.access
  /\ refresh_token' = h.refresh
  /\ refresh_count' = 0
  /\ domain_uuid' = IF h.domain # None THEN h.domain ELSE domain_uuid

StoreAuth(h) ==
  /\ access_token' = h.access
  /\ refresh_token' = h.refresh
  /\ refresh_count' = 0
  /\ domain_uuid' = IF domain_uuid = None /\ h.domain # None THEN h.domain
                    ELSE domain_uuid

\* the property FMCClient.domain_uuid: self._domain_uuid or the global default
domain_uuid_or_default == IF domain_uuid # None THEN domain_uuid ELSE DEFAULT_DOMAIN

\* _refresh_auth_token after a 204 from refreshtoken
StoreRefreshAccessOnly(h) ==
  /\ access_token' = h.access
  /\ refresh_token' = refresh_token
  /\ refresh_count' = refresh_count + 1
  /\ domain_uuid' = domain_uuid

StoreRefresh(h) ==
  /\ access_token' = h.access
  /\ refresh_token' = h.refresh
  /\ refresh_count' = refresh_count + 1
  /\ domain_uuid' = domain_uuid

\* back in _request after the refresh: re-attach the token and retry
RetryStaleHeader(t) ==
  /\ headers' = headers
  /\ SendData(t, "http2")

RetryAfterRefresh(t) ==
  /\ headers' = [headers EXCEPT ![t] = access_token']
  /\ SendData(t, "http2")

\* the error of an authentication call that raised or was refused
AuthError(r) == IF r.status = NoResponse THEN "TransportError" ELSE "RuntimeError"

\* the refreshtoken call is answered (or raised)
RefreshGiveUp(t, r) ==
  /\ pc[t] = "refresh"
  /\ \/ /\ r.status = 204
        /\ StoreRefresh(r)
        /\ RetryAfterRefresh(t)
        /\ posts' = posts
     \/ /\ r.status # 204
        /\ Raise(t, AuthError(r))
        /\ UNCHANGED <<credVars, headers, posts>>
  /\ UNCHANGED <<settingsVars, pageVars, last_call, limiterVars, client, connecting, response, wake,
                 seen, refreshes, backoffs, retry_after, slept, disturbed, acquired>>

RefreshRespond(t, r) ==
  /\ pc[t] = "refresh"
  /\ \/ /\ r.status = 204
        /\ StoreRefresh(r)
        /\ RetryAfterRefresh(t)
        /\ posts' = posts
     \/ /\ r.status \notin {204, NoResponse}
        /\ SendAuth(t, "auth_try")
        /\ UNCHANGED <<credVars, headers, sent>>
     \/ /\ r.status = NoResponse
        /\ SendAuth(t, "auth_exc")
        /\ UNCHANGED <<credVars, headers, sent>>
  /\ UNCHANGED <<settingsVars, pageVars, last_call, limiterVars, client, connecting, response, wake,
                 seen, refreshes, backoffs, retry_after, slept, disturbed, acquired>>

\* a generatetoken call made while handling a 401 is answered (or raised)
AuthRespond(t, r) ==
  /\ pc[t] \in {"auth_max", "auth_try", "auth_exc"}
  /\ \/ /\ r.status = 204
        /\ StoreAuth(r)
        /\ RetryAfterRefresh(t)
        /\ posts' = posts
     \/ /\ r.status # 204
        /\ pc[t] = "auth_try"
        /\ SendAuth(t, "auth_exc")
        /\ UNCHANGED <<credVars, headers, sent>>
     \/ /\ r.status # 204
        /\ pc[t] # "auth_try"
        /\ Raise(t, AuthError(r))
        /\ UNCHANGED <<credVars, headers, posts>>
  /\ UNCHANGED <<settingsVars, pageVars, last_call, limiterVars, client, connecting, response, wake,
                 seen, refreshes, backoffs, retry_after, slept, disturbed, acquired>>

\* connect(): a no-op on a connected client, else open the session and
\* start _authenticate
ConnectAgain ==
  /\ ~connecting
  /\ client' = TRUE
  /\ connecting' = TRUE
  /\ last_call' = "connect"
  /\ UNCHANGED <<settingsVars, pageVars, limiterVars, credVars, permits, pc, response,
                 headers, wake, obsVars, acquired>>

Connect ==
  /\ ~connecting
  /\ IF client
       THEN /\ UNCHANGED <<client, connecting>>
            /\ last_call' = "connect_noop"
       ELSE /\ client' = TRUE
            /\ connecting' = TRUE
            /\ last_call' = "connect"
  /\ UNCHANGED <<settingsVars, pageVars, limiterVars, credVars, permits, pc, response,
                 headers, wake, obsVars, acquired>>

\* connect(): the generatetoken call is answered (or raised)
ConnectRespond(r) ==
  /\ connecting
  /\ connecting' = FALSE
  /\ \/ r.status = 204 /\ StoreAuth(r) /\ last_call' = "connected"
     \/ r.status # 204 /\ UNCHANGED credVars /\ last_call' = "connect_failed"
  /\ UNCHANGED <<settingsVars, pageVars, limiterVars, client, permits, pc, response,
                 headers, wake, obsVars, acquired>>

\* close(): drop the session and both tokens; nothing to do without a session
CloseUnguarded ==
  /\ ~connecting
  /\ IF client
       THEN /\ client' = FALSE
            /\ access_token' = NoToken
            /\ refresh_token' = NoToken
            /\ disturbed' = [t \in Tasks |-> disturbed[t] \/ pc[t] \notin {"idle", "done"}]
            /\ last_call' = "close"
       ELSE /\ UNCHANGED <<client, access_token, refresh_token, disturbed>>
            /\ last_call' = "close_error"
  /\ UNCHANGED <<settingsVars, pageVars, limiterVars, refresh_count, domain_uuid, permits,
                 connecting, pc, response, headers, wake, sent, seen, refreshes,
                 posts, backoffs, retry_after, slept, outcome, acquired>>

Close ==
  /\ ~connecting
  /\ IF client
       THEN /\ client' = FALSE
            /\ access_token' = NoToken
            /\ refresh_token' = NoToken
            /\ disturbed' = [t \in Tasks |-> disturbed[t] \/ pc[t] \notin {"idle", "done"}]
            /\ last_call' = "close"
       ELSE /\ UNCHANGED <<client, access_token, refresh_token, disturbed>>
            /\ last_call' = "close_noop"
  /\ UNCHANGED <<settingsVars, pageVars, limiterVars, refresh_count, domain_uuid, permits,
                 connecting, pc, response, headers, wake, sent, seen, refreshes,
                 posts, backoffs, retry_after, slept, outcome, acquired>>

\* ------------------------------------------------ fetchers and pagination
\* get_all_items: limit = 1000
limit == 1000

\* JSON true and false; an absent key reads as None
JTrue == "true"
JFalse == "false"
\* the truth value Python gives a JSON value (None, false and "" are falsy)
Truthy(v) == v \notin {None, JFalse, ""}

\* str.lower() on the device names of the model
lower(s) == CASE s = "FTD-01" -> "ftd-01"
              [] s = "FTD-02" -> "ftd-02"
              [] OTHER -> s

\* the fetchers of the client and the tool built on them; get_devices,
\* get_network_objects and get_host_objects are get_all_items(endpoint)
NoCall == [op |-> "none", expanded |-> FALSE, device_name |-> None]
GetJson == [op |-> "get_json", expanded |-> FALSE, device_name |-> None]
GetAllItems(e) == [op |-> "get_all_items", expanded |-> e, device_name |-> None]
GetDeployableDevices ==
  [op |-> "get_deployable_devices", expanded |-> TRUE, device_name |-> None]
CheckDeploymentStatus(n) ==
  [op |-> "check_deployment_status", expanded |-> TRUE, device_name |-> n]

\* params = {"limit": limit, "offset": offset}, plus expanded = "true"
Params(o, e) == [limit |-> limit, offset |-> o, expanded |-> IF e THEN "true" ELSE None]

\* response.raise_for_status(): every status outside 2xx raises HTTPStatusError
is_success(s) == s >= 200 /\ s <= 299

\* data.get("items", []) of the page the controller serves at an offset
Page(o) == SubSeq(inventory, o + 1, Min(o + limit, Len(inventory)))
\* paging.get("count", 0); NoCount is an envelope that declares no count
NoCount == 0 - 1
total_count == IF paging = NoCount THEN 0 ELSE paging

\* if not items: break
NoItemsIgnored(items) == FALSE
NoItems(items) == items = <<>>

\* if offset + limit >= total_count: break
LastPageStrict(o) == o + limit > total_count
LastPage(o) == o + limit >= total_count

\* offset += limit
NextOffsetByOne(o) == o + 1
NextOffset(o) == o + limit

\* check_deployment_status: the optional filter on the device name
Filtered(deployable, device_name) ==
  LET Named(d) == lower(d.name) = lower(device_name) IN
  IF Truthy(device_name) THEN SelectSeq(deployable, Named) ELSE deployable

\* check_deployment_status: one result per listed device
Results(deployable) ==
  [i \in 1..Len(deployable) |->
     [name |-> deployable[i].name,
      id |-> deployable[i].id,
      upToDate |-> deployable[i].upToDate,
      hasPendingChanges |-> deployable[i].upToDate = JFalse]]

\* all(r.get("upToDate", True) for r in results)
all_syncedAny(results) == \E i \in 1..Len(results) : Truthy(results[i].upToDate)
all_synced(results) == \A i \in 1..Len(results) : Truthy(results[i].upToDate)

\* sum(1 for r in results if not r.get('upToDate'))
Pending(results) == Cardinality({i \in 1..Len(results) : ~Truthy(results[i].upToDate)})

\* the JSON document check_deployment_status returns
check_deployment_status(deployable, device_name) ==
  LET results == Results(Filtered(deployable, device_name)) IN
  [filter |-> IF Truthy(device_name) THEN device_name ELSE "all devices",
   devices |-> results,
   count |-> Len(results),
   allDevicesSynced |-> IF results # <<>> THEN all_synced(results) ELSE TRUE,
   summary |-> IF all_synced(results)
                 THEN [text |-> "All devices are in sync", pending |-> 0]
                 ELSE [text |-> "device(s) have pending changes",
                       pending |-> Pending(results)]]

\* get_deployable_devices catches the HTTPStatusError of a 403
SoftDegradesAny(c, s) == c.op \in {"get_deployable_devices", "check_deployment_status"}
SoftDegrades(c, s) ==
  /\ c.op \in {"get_deployable_devices", "check_deployment_status"}
  /\ s = 403

\* what the fetcher of call c hands back for the items it has
NoResult == [kind |-> "none", value |-> None]
Deliver(c, items) ==
  IF c.op = "check_deployment_status"
    THEN [kind |-> "status", value |-> check_deployment_status(items, c.device_name)]
    ELSE [kind |-> "items", value |-> items]

\* self.get(...): a new _request up to its first await, with no headers of
\* the caller's
Get(t) ==
  /\ IF client
       THEN /\ pc' = [pc EXCEPT ![t] = "rl_lock"]
            /\ outcome' = [outcome EXCEPT ![t] = "none"]
       ELSE /\ pc' = [pc EXCEPT ![t] = "done"]
            /\ outcome' = [outcome EXCEPT ![t] = "RuntimeError"]
  /\ response' = [response EXCEPT ![t] = 0]
  /\ headers' = [headers EXCEPT ![t] = NoToken]
  /\ sent' = [sent EXCEPT ![t] = <<>>]
  /\ seen' = [seen EXCEPT ![t] = <<>>]
  /\ retry_after' = [retry_after EXCEPT ![t] = <<>>]
  /\ refreshes' = [refreshes EXCEPT ![t] = 0]
  /\ posts' = [posts EXCEPT ![t] = <<>>]
  /\ backoffs' = [backoffs EXCEPT ![t] = 0]
  /\ slept' = [slept EXCEPT ![t] = <<>>]
  /\ disturbed' = [disturbed EXCEPT ![t] = FALSE]

\* a fetcher is called: get_all_items starts at offset 0 with no items
Fetch(t, c) ==
  /\ pc[t] = "idle"
  /\ call' = [call EXCEPT ![t] = c]
  /\ offset' = [offset EXCEPT ![t] = 0]
  /\ all_items' = [all_items EXCEPT ![t] = <<>>]
  /\ received' = [received EXCEPT ![t] = <<>>]
  /\ result' = [result EXCEPT ![t] = NoResult]
  /\ page_requests' = [page_requests EXCEPT ![t] =
                         IF c.op = "get_json" THEN <<>> ELSE <<Params(0, c.expanded)>>]
  /\ Get(t)
  /\ UNCHANGED <<settingsVars, inventory, paging, last_call, limiterVars, clientVars,
                 wake, acquired>>

\* the fetcher returns or raises
Finish(t, r) ==
  /\ pc' = [pc EXCEPT ![t] = "idle"]
  /\ result' = [result EXCEPT ![t] = r]
  /\ UNCHANGED <<response, headers, obsVars, offset, page_requests>>

\* _request has come back to the fetcher: the error passes through, or the
\* status is checked and the body read; get_all_items then ends its loop or
\* asks for the next page
Receive(t) ==
  LET c == call[t]
      items == Page(offset[t])
      got == all_items[t] \o items
  IN
  /\ pc[t] = "done"
  /\ c.op # "none"
  /\ IF outcome[t] # "response"
       THEN /\ Finish(t, [kind |-> "error", value |-> outcome[t]])
            /\ UNCHANGED <<all_items, received>>
       ELSE IF ~is_success(response[t])
         THEN /\ IF SoftDegrades(c, response[t])
                   THEN Finish(t, Deliver(c, <<>>))
                   ELSE Finish(t, [kind |-> "HTTPStatusError", value |-> response[t]])
              /\ UNCHANGED <<all_items, received>>
         ELSE IF c.op = "get_json"
           THEN /\ Finish(t, [kind |-> "json", value |-> "body"])
                /\ UNCHANGED <<all_items, received>>
           ELSE /\ received' = [received EXCEPT ![t] = Append(@, items)]
                /\ IF NoItems(items)
                     THEN /\ Finish(t, Deliver(c, all_items[t]))
                          /\ UNCHANGED all_items
                     ELSE /\ all_items' = [all_items EXCEPT ![t] = got]
                          /\ IF LastPage(offset[t])
                               THEN Finish(t, Deliver(c, got))
                               ELSE /\ offset' = [offset EXCEPT ![t] = NextOffset(@)]
                                    /\ page_requests' =
                                         [page_requests EXCEPT ![t] =
                                            Append(@, Params(NextOffset(offset[t]),
                                                             c.expanded))]
                                    /\ Get(t)
                                    /\ UNCHANGED result
  /\ UNCHANGED <<settingsVars, inventory, paging, call, last_call, limiterVars,
                 clientVars, wake, acquired>>

\* ---------------------------------------------------------- initial state
\* FMCClient.__init__ for some settings: no session, no tokens, a full bucket,
\* all permits free.
Construct(limits, connections) ==
  /\ fmc_rate_limit \in limits
  /\ fmc_max_connections \in connections
  /\ fmc_domain_uuid \in {None, "CFG"}
  /\ tokens = fmc_rate_limit * TOKEN
  /\ elapsed = 0
  /\ lock = NoTask
  /\ client = FALSE
  /\ access_token = NoToken
  /\ refresh_token = NoToken
  /\ refresh_count = 0
  /\ domain_uuid = fmc_domain_uuid
  /\ permits = fmc_max_connections
  /\ connecting = FALSE
  /\ pc = [t \in Tasks |-> "idle"]
  /\ response = [t \in Tasks |-> 0]
  /\ headers = [t \in Tasks |-> NoToken]
  /\ wake = [t \in Tasks |-> 0]
  /\ sent = [t \in Tasks |-> <<>>]
  /\ seen = [t \in Tasks |-> <<>>]
  /\ retry_after = [t \in Tasks |-> <<>>]
  /\ refreshes = [t \in Tasks |-> 0]
  /\ posts = [t \in Tasks |-> <<>>]
  /\ backoffs = [t \in Tasks |-> 0]
  /\ slept = [t \in Tasks |-> <<>>]
  /\ outcome = [t \in Tasks |-> "none"]
  /\ disturbed = [t \in Tasks |-> FALSE]
  /\ acquired = 0
  /\ last_call = "none"
  /\ call = [t \in Tasks |-> NoCall]
  /\ offset = [t \in Tasks |-> 0]
  /\ all_items = [t \in Tasks |-> <<>>]
  /\ page_requests = [t \in Tasks |-> <<>>]
  /\ received = [t \in Tasks |-> <<>>]
  /\ result = [t \in Tasks |-> NoResult]

\* a controller with nothing to enumerate
NoInventory == inventory = <<>> /\ paging = NoCount

\* the settings of a working deployment: a positive rate limit
Init == Construct(1..MaxRateLimit, 1..MaxConnections) /\ NoInventory

\* The rate limiter on its own, as the client builds it, with Tasks calling it
InitRL ==
  /\ Init
  /\ fmc_max_connections = 1
  /\ fmc_domain_uuid = None

NextRL ==
  \/ \E t \in Tasks : CallAcquire(t)
  \/ \E t \in Tasks : RLEnter(t)
  \/ \E t \in Tasks : RLWake(t)
  \/ \E t \in Tasks : AcquireReturn(t)
  \/ Tick(TickStep)

SpecRL == InitRL /\ [][NextRL]_vars

\* The rate limiter for every rate limit the settings accept: fmc_rate_limit
\* is an unconstrained int, 0 included
InitLimiter ==
  /\ Construct(0..MaxRateLimit, {1})
  /\ NoInventory
  /\ fmc_domain_uuid = None

NextLimiter ==
  \/ NextRL
  \/ \E t \in Tasks : Return(t)

SpecLimiter == InitLimiter /\ [][NextLimiter]_vars

\* The tasks T sending requests through the client; Data, Auth and Refresh
\* are what the controller may answer to a data, generatetoken and
\* refreshtoken call.
Requests(T, Data, Auth, Refresh) ==
  \/ \E t \in T : Request(t)
  \/ \E t \in T : RLEnter(t)
  \/ \E t \in T : RLWake(t)
  \/ \E t \in T : SemAcquire(t)
  \/ \E t \in T, r \in Data : Respond1(t, r)
  \/ \E t \in T, r \in Refresh : RefreshRespond(t, r)
  \/ \E t \in T, r \in Auth : AuthRespond(t, r)
  \/ \E t \in T, r \in Data : Respond2(t, r)
  \/ \E t \in T : BackoffWake(t)
  \/ \E t \in T, r \in Data : Respond3(t, r)
  \/ \E t \in T : Return(t)
  \/ Tick(REFILL_WINDOW)

\* One task on a client built for one request a minute and one connection,
\* an owner who connects and closes the client at any time, and every answer
\* the controller can give
InitSolo == Init /\ fmc_rate_limit = 1 /\ fmc_max_connections = 1

Next ==
  \/ Connect
  \/ \E r \in AuthResponses : ConnectRespond(r)
  \/ Close
  \/ Requests({1}, DataResponses, AuthResponses, RefreshResponses)

Spec == InitSolo /\ [][Next]_vars

\* Tasks running side by side on a client that is connected once and stays
\* open, against a controller that always issues the same token pair; the
\* domain is configured
ConcData == {DataReply(s, AbsentHeader) : s \in {200, 401, 429, NoResponse}}
            \cup {DataReply(429, [present |-> TRUE, text |-> <<"s", "o", "o", "n">>])}
ConcAuth == {AuthReply(204, 1, 1, None)} \cup AuthFailures
InitConc == Init /\ fmc_domain_uuid = "CFG"
NextConc ==
  \/ Connect
  \/ \E r \in ConcAuth : ConnectRespond(r)
  \/ Requests(Tasks, ConcData, ConcAuth, ConcAuth)

SpecConc == InitConc /\ [][NextConc]_vars

\* Tasks running side by side, with a permit for each, against a controller
\* that issues a new token pair on every authentication and refresh and never
\* fails them
TokData == {DataReply(s, AbsentHeader) : s \in {200, 401, 429}}
TokAuth == {AuthReply(204, k, k, None) : k \in TokenIds}
InitTok == Construct({MaxRateLimit}, {NumTasks}) /\ NoInventory /\ fmc_domain_uuid = "CFG"
NextTok ==
  \/ Connect
  \/ \E r \in TokAuth : ConnectRespond(r)
  \/ Requests(Tasks, TokData, TokAuth, TokAuth)

SpecTok == InitTok /\ [][NextTok]_vars

\* One request in its exchange with the controller: everything between the
\* entry of _request and its return
Exchange(T, Data, Auth, Refresh) ==
  \/ \E t \in T : RLEnter(t)
  \/ \E t \in T : RLWake(t)
  \/ \E t \in T : SemAcquire(t)
  \/ \E t \in T, r \in Data : Respond1(t, r)
  \/ \E t \in T, r \in Refresh : RefreshRespond(t, r)
  \/ \E t \in T, r \in Auth : AuthRespond(t, r)
  \/ \E t \in T, r \in Data : Respond2(t, r)
  \/ \E t \in T : BackoffWake(t)
  \/ \E t \in T, r \in Data : Respond3(t, r)
  \/ Tick(REFILL_WINDOW)

\* One task calling one fetcher of a client built for one connection,
\* against a controller that refuses every refresh, so that a 401 leads to a
\* re-authentication
PageData == {DataReply(s, AbsentHeader) : s \in Statuses \cup {NoResponse}}
PageAuth == {AuthReply(204, 1, 1, None)}
PageRefresh == {AuthReply(401, NoToken, NoToken, None)}

Fetching(calls) ==
  \/ Connect
  \/ \E r \in PageAuth : ConnectRespond(r)
  \/ \E c \in calls : call[1] = NoCall /\ Fetch(1, c)
  \/ Exchange({1}, PageData, PageAuth, PageRefresh)
  \/ Receive(1)

\* The paging fetchers against a controller that enumerates items, each
\* standing for itself as a number, page by page, and declares a count of
\* its own choosing: no items, a few, whole pages, whole pages and one more
PageInventories ==
  {[i \in 1..n |-> i] : n \in {0, 2, limit, limit + 1, MaxPages * limit + 1}}
DeclaredCounts ==
  {NoCount, 2, limit, limit + 1, MaxPages * limit + 1, (MaxPages + 1) * limit}
PageCalls == {GetJson, GetDeployableDevices} \cup {GetAllItems(e) : e \in BOOLEAN}

InitPage ==
  /\ Construct({MaxRateLimit}, {1})
  /\ fmc_domain_uuid = "CFG"
  /\ inventory \in PageInventories
  /\ paging \in DeclaredCounts

NextPage == Fetching(PageCalls)

SpecPage == InitPage /\ [][NextPage]_vars

\* The deployment-status tool, on a client built for one request a minute,
\* against a controller with a short list of deployable devices of every
\* kind, which declares their number or more than a page
DeviceNames == {"FTD-01", "ftd-02"}
UpToDateValues == {JTrue, JFalse, None}
Device(i, n, u) == [id |-> i, name |-> n, upToDate |-> u]
ShortInventories ==
  UNION {{[i \in 1..n |-> Device(i, f[i][1], f[i][2])] :
            f \in [1..n -> DeviceNames \X UpToDateValues]} : n \in 0..MaxDevices}
Filters == {None, "", "ftd-01"}
ToolCalls == {CheckDeploymentStatus(n) : n \in Filters}

InitTool ==
  /\ Construct({1}, {1})
  /\ fmc_domain_uuid = "CFG"
  /\ inventory \in ShortInventories
  /\ paging \in {Len(inventory), limit + 1}

NextTool == Fetching(ToolCalls)

SpecTool == InitTool /\ [][NextTool]_vars

\* ------------------------------------------------------------ properties
Count(seq, x) == Cardinality({i \in 1..Len(seq) : seq[i] = x})
Finished(t) == pc[t] = "done"
First401(t) == Len(seen[t]) >= 1 /\ seen[t][1] = 401
\* the refresh attempt ended in a re-authentication that failed
ReauthFailed(t) ==
  /\ outcome[t] \in {"RuntimeError", "TransportError"}
  /\ posts[t] # <<>>
  /\ posts[t][Len(posts[t])] = "generatetoken"
  /\ sent[t] = <<"first">>
Second401Final(t) ==
  (Len(seen[t]) >= 2 /\ seen[t][2] = 401) =>
     /\ sent[t] = <<"first", "retry401">>
     /\ refreshes[t] = 1
     /\ outcome[t] = "response"
     /\ response[t] = 401

\* C1 as stated: a 401 on the first attempt of a request on a connected client
\* gives exactly one refresh attempt and then exactly one retried call; a 401
\* on the retry is returned with no further refresh or retry.
C1_Claimed ==
  \A t \in Tasks :
    (Finished(t) /\ ~disturbed[t] /\ First401(t)) =>
       /\ refreshes[t] = 1
       /\ Count(sent[t], "retry401") = 1
       /\ Second401Final(t)

\* C1, amended: a 401 on the first attempt gives exactly one refresh attempt,
\* followed by exactly one retried call unless the refresh attempt ended in a
\* failed re-authentication, which is raised with no retried call; a 401 on
\* the retry is returned with no further refresh or retry.
C1_RefreshOnceRetryOnce ==
  \A t \in Tasks :
    (Finished(t) /\ ~disturbed[t] /\ First401(t)) =>
       /\ refreshes[t] = 1
       /\ \/ Count(sent[t], "retry401") = 1 /\ ~ReauthFailed(t)
          \/ Count(sent[t], "retry401") = 0 /\ ReauthFailed(t)
       /\ Second401Final(t)

C1_Witness ==
  \E t \in Tasks :
    /\ Finished(t) /\ ~disturbed[t]
    /\ seen[t] = <<401, 401>>
    /\ posts[t] = <<"refreshtoken">>

\* C2: a 429 makes the task sleep for the seconds of the Retry-After header
\* (60 when there is none) and then retry exactly once; a 429 on that retry is
\* returned with no further sleep or retry.
C2_BackoffOnce ==
  \A t \in Tasks :
    /\ (429 \in {seen[t][i] : i \in 1..Len(seen[t])}) => Len(retry_after[t]) = 1
    /\ (retry_after[t] # <<>> /\ ~retry_after[t][1].present) => slept[t] = <<60>>
    /\ (retry_after[t] # <<>> /\ retry_after[t][1].present
          /\ retry_after[t][1].text = <<"2", "0">>) => slept[t] = <<20>>
    /\ pc[t] = "backoff" => (slept[t] # <<>> /\ wake[t] <= slept[t][1])
    /\ pc[t] = "http3" => (wake[t] = 0 /\ Len(slept[t]) = 1)
    /\ (Finished(t) /\ ~disturbed[t] /\ slept[t] # <<>>) =>
          Count(sent[t], "retry429") = 1
    /\ (Finished(t) /\ Count(seen[t], 429) = 2) =>
          /\ outcome[t] = "response" /\ response[t] = 429
          /\ Len(slept[t]) = 1
          /\ Count(sent[t], "retry429") = 1

C2_Witness ==
  \E t \in Tasks :
    /\ Finished(t) /\ ~disturbed[t]
    /\ seen[t] = <<429, 429>>
    /\ slept[t] = <<60>>

\* C3 as stated: a 429 whose Retry-After is not an integer is treated as 60
\* seconds: the task sleeps 60, retries once, and no error is raised.
C3_Claimed ==
  \A t \in Tasks :
    (retry_after[t] # <<>> /\ retry_after[t][1].present
       /\ retry_after[t][1].text = <<"s", "o", "o", "n">>) =>
          /\ slept[t] = <<60>>
          /\ outcome[t] # "ValueError"

C3_Witness ==
  \E t \in Tasks :
    /\ Finished(t) /\ ~disturbed[t]
    /\ seen[t] = <<429>>
    /\ retry_after[t] = <<[present |-> TRUE, text |-> <<"s", "o", "o", "n">>]>>
    /\ outcome[t] = "ValueError"
    /\ slept[t] = <<>>

\* C4: one request makes at most one 401 retry and at most one 429 retry, so
\* at most three data calls; a 401 whose retry gets a 429 goes through both
\* branches once each.
C4_SingleShot ==
  \A t \in Tasks :
    /\ Count(sent[t], "retry401") <= 1
    /\ Count(sent[t], "retry429") <= 1
    /\ Len(sent[t]) <= 3
    /\ refreshes[t] <= 1
    /\ backoffs[t] <= 1
    /\ (Finished(t) /\ ~disturbed[t] /\ Len(seen[t]) >= 2
          /\ seen[t][1] = 401 /\ seen[t][2] = 429 /\ slept[t] # <<>>) =>
          /\ sent[t] = <<"first", "retry401", "retry429">>
          /\ refreshes[t] = 1
          /\ backoffs[t] = 1

C4_Witness ==
  \E t \in Tasks :
    /\ Finished(t) /\ ~disturbed[t]
    /\ seen[t] = <<401, 429, 429>>
    /\ sent[t] = <<"first", "retry401", "retry429">>

\* a returned 429 is the answer to the retry that followed a backoff
Returned429Retried(t) ==
  (Finished(t) /\ outcome[t] = "response" /\ response[t] = 429) =>
     /\ backoffs[t] = 1
     /\ Len(slept[t]) = 1
     /\ Count(sent[t], "retry429") = 1
     /\ Len(seen[t]) >= 2
     /\ seen[t][Len(seen[t]) - 1] = 429
\* a 401 of the first attempt was refreshed, retried, and the retry failed too
Refreshed401(t) ==
  /\ First401(t)
  /\ refreshes[t] = 1
  /\ Count(sent[t], "retry401") = 1
  /\ Len(seen[t]) >= 2
  /\ seen[t][2] \in {401, 429}

\* C5 as stated: the caller gets a 401 (a 429) only if a 401 (a 429) of that
\* request was answered by refresh-and-retry (backoff-and-retry) and the retry
\* failed as well, in whatever order 401 and 429 arrive.
C5_Claimed ==
  \A t \in Tasks :
    /\ (Finished(t) /\ outcome[t] = "response" /\ response[t] = 401) => Refreshed401(t)
    /\ Returned429Retried(t)

\* C5, amended: the caller gets a 429 only after backoff-and-retry of a 429;
\* it gets a 401 only if the 401 of the first attempt was answered by
\* refresh-and-retry and the retry failed as well, or if the 401 is the answer
\* to the retry that followed a 429 of the first attempt, which is returned
\* without any refresh.
C5_NoUnretriedFailure ==
  \A t \in Tasks :
    /\ (Finished(t) /\ outcome[t] = "response" /\ response[t] = 401) =>
          \/ Refreshed401(t)
          \/ /\ seen[t] = <<429, 401>>
             /\ sent[t] = <<"first", "retry429">>
             /\ refreshes[t] = 0
             /\ backoffs[t] = 1
    /\ Returned429Retried(t)

C5_Witness ==
  \E t \in Tasks :
    /\ Finished(t) /\ outcome[t] = "response"
    /\ seen[t] = <<429, 401>>
    /\ refreshes[t] = 0

\* the task is inside `async with self._connection_semaphore`
InExchange(t) ==
  pc[t] \in {"http1", "refresh", "auth_max", "auth_try", "auth_exc", "http2",
             "backoff", "http3"}
Exchanging == {t \in Tasks : InExchange(t)}

\* C6: however many requests are queued, at most max_connections of them are
\* inside their HTTP exchange.
C6_Ceiling == Cardinality(Exchanging) <= fmc_max_connections

C6_Witness ==
  /\ Cardinality(Exchanging) = fmc_max_connections
  /\ \E t \in Tasks : pc[t] = "sem_wait"

\* C7: a request holds exactly one permit from its first call until it leaves
\* the exchange, through refresh, re-authentication, backoff and both retries,
\* and gives it back on every exit; with no request in flight all permits are
\* free.
C7_PermitHeldAndReturned ==
  /\ permits = fmc_max_connections - Cardinality(Exchanging)
  /\ permits >= 0

C7_Witness ==
  /\ permits = fmc_max_connections
  /\ \E t \in Tasks :
       /\ Finished(t)
       /\ outcome[t] = "RuntimeError"
       /\ posts[t] # <<>>
       /\ seen[t] = <<401>>

\* the step in which some acquire() takes its token and returns
Took(t) == pc[t] \in {"rl_lock", "rl_sleep"} /\ pc'[t] = "sem_wait"
\* the step in which some acquire() goes to sleep
Suspends(t) ==
  \/ pc[t] = "rl_lock" /\ pc'[t] = "rl_sleep"
  \/ pc[t] = "rl_sleep" /\ pc'[t] = "rl_sleep" /\ wake[t] = 0 /\ wake'[t] > 0

\* C8: the token count always lies in [0, capacity], and right after the
\* decrement of any acquire() it lies in [0, capacity).
C8_TokenBounds ==
  /\ [](tokens >= 0 /\ tokens <= capacity * TOKEN)
  /\ [][\A t \in Tasks : Took(t) => (tokens' >= 0 /\ tokens' < capacity * TOKEN)]_vars

C8_Witness ==
  /\ tokens = capacity * TOKEN - TOKEN
  /\ capacity >= 2
  /\ acquired >= capacity + 1
  /\ \E t \in Tasks : pc[t] = "sem_wait"

\* C9: at most one task is inside the refill+decrement section (a sleeping
\* waiter stays inside), and every completed acquire() takes exactly one token
\* from a count of at least one.
C9_OneOwner ==
  /\ [](/\ Cardinality({t \in Tasks : pc[t] = "rl_sleep"}) <= 1
        /\ \A t \in Tasks : pc[t] = "rl_sleep" <=> lock = t)
  /\ [][\A t \in Tasks : Took(t) =>
          /\ Refill(tokens, elapsed) >= TOKEN
          /\ tokens' = Refill(tokens, elapsed) - TOKEN
          /\ \A u \in Tasks \ {t} : pc'[u] = pc[u]]_vars

C9_Witness ==
  \E t, u \in Tasks :
    /\ t # u
    /\ pc[t] = "rl_sleep"
    /\ pc[u] = "rl_lock"

\* C10: from a full bucket the first `capacity` calls of acquire() never
\* suspend; an acquire() suspends only when the refilled count is below one
\* token.
C10_NoEarlySuspend ==
  /\ [](\A t \in Tasks : pc[t] = "rl_sleep" => acquired >= capacity)
  /\ [][\A t \in Tasks : Suspends(t) => Refill(tokens, elapsed) < TOKEN]_vars

C10_Witness ==
  /\ capacity >= 2
  /\ acquired = capacity
  /\ tokens = 0
  /\ \A t \in Tasks : pc[t] # "rl_sleep"

\* C11 as stated: acquire() never raises, for every rate limiter the client
\* builds from its settings.
C11_Claimed == \A t \in Tasks : outcome[t] # "ZeroDivisionError"

C11_Witness ==
  \E t \in Tasks :
    /\ fmc_rate_limit = 0
    /\ pc[t] = "done"
    /\ outcome[t] = "ZeroDivisionError"
    /\ lock = NoTask

\* the client has no session and no token
Disconnected == ~client /\ access_token = NoToken /\ refresh_token = NoToken
\* the client has a session and an access token
Authenticated == client /\ access_token # NoToken

\* C12 as stated: whenever no connect() is in progress the client is either
\* Disconnected or Connected-and-authenticated; a connect() whose
\* authentication fails leaves it Disconnected.
C12_Claimed == ~connecting => (Disconnected \/ Authenticated)

C12_Witness ==
  /\ ~connecting
  /\ client
  /\ access_token = NoToken
  /\ refresh_token = NoToken
  /\ \A t \in Tasks : pc[t] = "idle"

\* the step in which connect() returned at once because a session exists
ConnectNoOp == last_call' = "connect_noop" /\ last_call # "connect_noop"

\* C13: connect() on an already connected client starts no authentication
\* call and leaves the session, both tokens, the refresh counter and the
\* domain identifier as they are.
C13_ConnectIdempotent ==
  /\ [][(client /\ ~connecting) => ~connecting']_vars
  /\ [][ConnectNoOp => /\ client /\ client'
                       /\ UNCHANGED <<credVars, connecting, permits, pc, posts, sent>>]_vars
  /\ [][(client /\ last_call' # last_call /\ last_call' \in {"connect", "connect_noop"})
          => ConnectNoOp]_vars

C13_Witness ==
  /\ last_call = "connect_noop"
  /\ client
  /\ access_token # NoToken
  /\ refresh_token # NoToken
  /\ refresh_count > 0
  /\ domain_uuid = "D1"

\* the step in which close() found no session
CloseNoOp == last_call' = "close_noop" /\ last_call # "close_noop"

\* C14: after close() there is no session; a further close(), and a close()
\* on a client that never connected, raises nothing, starts no HTTP call and
\* changes no state.
C14_CloseIdempotent ==
  /\ [](last_call \in {"close", "close_noop"} => ~client)
  /\ [][CloseNoOp => /\ ~client
                     /\ UNCHANGED <<settingsVars, pageVars, limiterVars, clientVars, pc,
                                    response, headers, wake, obsVars, acquired>>]_vars
  /\ [][(~client /\ last_call' # last_call /\ last_call' \notin {"connect", "connect_noop"})
          => CloseNoOp]_vars

C14_Witness ==
  /\ last_call = "close_noop"
  /\ ~client
  /\ domain_uuid = "D1"
  /\ refresh_count > 0

\* the step in which close() tears a session down
Closes == client /\ ~client'

\* C15 as stated: close() on a connected client leaves no access token, no
\* refresh token, a refresh counter of 0 and no discovered domain identifier.
C15_Claimed ==
  [][Closes => /\ access_token' = NoToken
               /\ refresh_token' = NoToken
               /\ refresh_count' = 0
               /\ domain_uuid' = fmc_domain_uuid]_vars

C15_Witness ==
  /\ last_call = "close"
  /\ ~client
  /\ access_token = NoToken
  /\ refresh_token = NoToken
  /\ fmc_domain_uuid = None
  /\ domain_uuid = "D1"
  /\ refresh_count > 0
  /\ \A t \in Tasks : pc[t] = "idle"

\* the step in which the authentication started by connect() comes to its end
AuthEnds == connecting /\ ~connecting'

\* C16 as stated: an authentication succeeds only on a 204 that carries both
\* token headers, and then both stored tokens are present; any other answer
\* is an error that leaves the stored tokens and the refresh counter as they
\* were.
C16_Claimed ==
  [][AuthEnds =>
       /\ last_call' = "connected" =>
            (access_token' # NoToken /\ refresh_token' # NoToken /\ refresh_count' = 0)
       /\ last_call' = "connect_failed" =>
            UNCHANGED <<access_token, refresh_token, refresh_count>>]_vars

C16_Witness ==
  /\ last_call = "connected"
  /\ client
  /\ access_token = NoToken
  /\ refresh_token # NoToken
  /\ \A t \in Tasks : pc[t] = "idle" /\ outcome[t] = "none"

\* the step in which task t issues a data call, and which call it is
Issued(t) == Len(sent'[t]) = Len(sent[t]) + 1
IssuedCall(t) == sent'[t][Len(sent'[t])]

\* C17 as stated: every data call carries the access token stored in the
\* client at the moment the call is issued.
C17_Claimed ==
  [][\A t \in Tasks : Issued(t) => headers'[t] = access_token']_vars

\* C17, amended: the first attempt and the retry after a 401 carry the access
\* token stored in the client at the moment the call is issued, whatever
\* header the caller supplied; the retry after a 429 carries again the header
\* of the attempt before it, whatever the client stores by then.
C17_TokenAttached ==
  [][\A t \in Tasks : Issued(t) =>
        /\ IssuedCall(t) \in {"first", "retry401"} => headers'[t] = access_token'
        /\ IssuedCall(t) = "retry429" => headers'[t] = headers[t]]_vars

C17_Witness ==
  \E t \in Tasks :
    /\ pc[t] = "http3"
    /\ sent[t] = <<"first", "retry401", "retry429">>
    /\ headers[t] # NoToken
    /\ access_token # NoToken
    /\ headers[t] # access_token

\* the step in which task t receives a 401 on its first attempt
Gets401(t) == refreshes'[t] = refreshes[t] + 1
\* the step in which the refreshtoken call of task t is answered with 204
Refreshed(t) == pc[t] = "refresh" /\ pc'[t] = "http2"

\* C18 as stated: a successful authentication sets the refresh counter to 0, a
\* successful refresh adds exactly 1 to it, and a 401 that arrives while the
\* counter is 3 sends no refresh call but a full re-authentication.
C18_Claimed ==
  /\ [][refresh_count' # refresh_count =>
          (refresh_count' = 0 \/ refresh_count' = refresh_count + 1)]_vars
  /\ [][\A t \in Tasks : Refreshed(t) => refresh_count' = refresh_count + 1]_vars
  /\ [][\A t \in Tasks :
          (Gets401(t) /\ client /\ refresh_count = max_refreshes) =>
             posts'[t] = Append(posts[t], "generatetoken")]_vars

C18_Witness ==
  \E t \in Tasks :
    /\ pc[t] = "http2"
    /\ ~disturbed[t]
    /\ client
    /\ refresh_count = max_refreshes
    /\ refresh_token = NoToken
    /\ refreshes[t] = 1
    /\ posts[t] = <<>>
    /\ sent[t] = <<"first", "retry401">>

\* the step in which the refreshtoken call of task t is refused or raises
RefreshFails(t) == pc[t] = "refresh" /\ pc'[t] \notin {"refresh", "http2"}
\* task t is waiting for the answer to a re-authentication after a refresh
Reauthenticating(t) == pc[t] \in {"auth_try", "auth_exc"}
\* the step in which that re-authentication succeeds
ReauthSucceeds(t) == Reauthenticating(t) /\ pc'[t] = "http2"
\* the whole of the refresh handling of task t was refresh, then re-authentication
FellBack(t) ==
  /\ Len(posts[t]) >= 2
  /\ posts[t][1] = "refreshtoken"
  /\ \A i \in 2..Len(posts[t]) : posts[t][i] = "generatetoken"

\* C19: a refresh call that is answered with another status than 204, or that
\* raises, is followed by a full re-authentication; when that succeeds the
\* refresh counter is 0 and the request is retried with the access token the
\* re-authentication stored.
C19_RefreshFallback ==
  /\ [][\A t \in Tasks : (RefreshFails(t) /\ client) =>
          /\ Reauthenticating(t)'
          /\ posts'[t] = Append(posts[t], "generatetoken")]_vars
  /\ [][\A t \in Tasks : ReauthSucceeds(t) =>
          /\ refresh_count' = 0
          /\ headers'[t] = access_token'
          /\ sent'[t] = Append(sent[t], "retry401")]_vars
  /\ [](\A t \in Tasks : (Finished(t) /\ ~disturbed[t] /\ FellBack(t)) =>
          \/ /\ outcome[t] \in {"RuntimeError", "TransportError"}
             /\ sent[t] = <<"first">>
          \/ Count(sent[t], "retry401") = 1)

C19_Witness ==
  \E t \in Tasks :
    /\ Finished(t) /\ ~disturbed[t]
    /\ posts[t] = <<"refreshtoken", "generatetoken">>
    /\ seen[t] = <<401, 200>>
    /\ sent[t] = <<"first", "retry401">>
    /\ refresh_count = 0
    /\ access_token = 2
    /\ headers[t] = 2

\* C20: a configured domain identifier is the client's domain identifier in
\* every state, whatever authentication answers carry; without one the
\* identifier is the default GUID until an authentication answer carries a
\* domain, and from then on it is that first discovered value, through every
\* later refresh and re-authentication.
C20_DomainResolution ==
  /\ [](fmc_domain_uuid # None => domain_uuid_or_default = fmc_domain_uuid)
  /\ [](domain_uuid_or_default \in {fmc_domain_uuid, DEFAULT_DOMAIN, "D1", "D2"} \ {None})
  /\ []((fmc_domain_uuid = None /\ last_call = "none")
           => domain_uuid_or_default = DEFAULT_DOMAIN)
  /\ [][domain_uuid # None => domain_uuid' = domain_uuid]_vars
  /\ [][domain_uuid' # domain_uuid =>
          /\ fmc_domain_uuid = None
          /\ domain_uuid_or_default = DEFAULT_DOMAIN
          /\ domain_uuid' \in DomainHeaders \ {None}
          /\ refresh_count' = 0]_vars

C20_Witness ==
  \E t \in Tasks :
    /\ fmc_domain_uuid = None
    /\ domain_uuid_or_default = "D1"
    /\ Finished(t) /\ ~disturbed[t]
    /\ posts[t] = <<"refreshtoken", "generatetoken">>
    /\ outcome[t] = "response"
    /\ refresh_count = 0

\* the fetchers that page through an endpoint and hand the items back
Paginates(t) == call[t].op \in {"get_all_items", "get_deployable_devices"}
GaveItems(t) == Paginates(t) /\ result[t].kind = "items"
\* the step in which task t receives a page, and the page
GetsPage(t) == Len(received'[t]) = Len(received[t]) + 1
NewPage(t) == received'[t][Len(received'[t])]
\* the step in which the fetcher of task t comes back to its caller
Returns(t) == result[t].kind = "none" /\ result'[t].kind # "none"

\* C21: get_all_items stops, with no further request, as soon as offset + limit
\* reaches the declared count; when the first page is not empty and the
\* declared count is at most the page size, one page request is made and the
\* result is that page's items in order.
C21_StopsAtDeclaredCount ==
  /\ [][\A t \in Tasks :
          (GetsPage(t) /\ NewPage(t) # <<>> /\ offset[t] + limit >= total_count) =>
             /\ Returns(t)
             /\ page_requests'[t] = page_requests[t]]_vars
  /\ [](\A t \in Tasks :
          (Paginates(t) /\ received[t] # <<>> /\ received[t][1] # <<>>
             /\ total_count <= limit) =>
                /\ Len(page_requests[t]) = 1
                /\ Len(received[t]) = 1
                /\ GaveItems(t)
                /\ result[t].value = received[t][1])

C21_Witness ==
  \E t \in Tasks :
    /\ call[t] = GetAllItems(TRUE)
    /\ result[t].kind = "items"
    /\ paging = limit
    /\ Len(inventory) = limit + 1
    /\ Len(page_requests[t]) = 1
    /\ Len(result[t].value) = limit

\* C22: a page with no items ends the loop at once: no further request is
\* made and the items gathered so far are returned, whatever the declared
\* count; the offset never passes the first empty page, so the loop ends.
C22_EmptyPageEnds ==
  /\ [][\A t \in Tasks :
          (GetsPage(t) /\ NewPage(t) = <<>>) =>
             /\ Returns(t)
             /\ page_requests'[t] = page_requests[t]
             /\ all_items'[t] = all_items[t]
             /\ result'[t] = Deliver(call[t], all_items[t])]_vars
  /\ [][\A t \in Tasks :
          (page_requests[t] # <<>> /\ Len(page_requests'[t]) = Len(page_requests[t]) + 1) =>
             /\ offset'[t] = offset[t] + limit
             /\ NewPage(t) # <<>>]_vars
  /\ [](\A t \in Tasks : offset[t] < Len(inventory) + limit)

C22_Witness ==
  \E t \in Tasks :
    /\ call[t] = GetAllItems(TRUE)
    /\ result[t].kind = "items"
    /\ Len(received[t]) = 2
    /\ received[t][2] = <<>>
    /\ total_count > offset[t] + limit
    /\ result[t].value = inventory
    /\ inventory # <<>>

\* the number of pages that paging until the first empty page asks for
PagesUntilEmpty == (Len(inventory) \div limit) + 1

\* C23 as stated: whatever count the controller declares, larger or smaller
\* than what it enumerates, get_all_items returns every enumerable item, as
\* paging until the first empty page does, and the count check saves at most
\* the one trailing request.
C23_Claimed ==
  \A t \in Tasks :
    GaveItems(t) =>
      /\ result[t].value = inventory
      /\ Len(page_requests[t]) \in {PagesUntilEmpty - 1, PagesUntilEmpty}

C23_Witness ==
  \E t \in Tasks :
    /\ call[t] = GetAllItems(TRUE)
    /\ result[t].kind = "items"
    /\ Len(inventory) = limit + 1
    /\ paging = limit
    /\ Len(result[t].value) = limit
    /\ result[t].value # inventory
    /\ received[t] = <<result[t].value>>

\* the fetcher of task t is back and its last request ended with a status
\* outside 2xx
FailedStatus(t) ==
  /\ result[t].kind # "none"
  /\ outcome[t] = "response"
  /\ ~is_success(response[t])
Propagated(t) ==
  /\ result[t].kind = "HTTPStatusError"
  /\ result[t].value = response[t]

\* C24: get_deployable_devices returns an empty list, raising nothing, when
\* its request ends with a 403; every other final status outside 2xx on that
\* endpoint is raised to the caller, and so is a 403, like every other such
\* status, on get_all_items (get_devices, get_network_objects,
\* get_host_objects) and get_json.
C24_SoftDegradation ==
  \A t \in Tasks :
    FailedStatus(t) =>
      /\ (call[t] = GetDeployableDevices /\ response[t] = 403) =>
            (result[t].kind = "items" /\ result[t].value = <<>>)
      /\ (call[t] = GetDeployableDevices /\ response[t] # 403) => Propagated(t)
      /\ call[t].op \in {"get_all_items", "get_json"} => Propagated(t)

C24_Witness ==
  \E t \in Tasks :
    /\ call[t] = GetDeployableDevices
    /\ FailedStatus(t)
    /\ response[t] = 403
    /\ Len(page_requests[t]) = 2
    /\ Len(received[t]) = 1
    /\ all_items[t] # <<>>
    /\ result[t].kind = "items"
    /\ result[t].value = <<>>

\* the step in which task t calls _request
Calls(t) == pc[t] = "idle" /\ pc'[t] # "idle"

\* C25: a request made while the client has no session (before connect() or
\* after close()) raises the uninitialized-client error at once: no HTTP call
\* is sent, the rate limiter and the permits are untouched and no credential
\* changes.
C25_DisconnectedRequest ==
  /\ [][\A t \in Tasks : (Calls(t) /\ ~client) =>
          /\ pc'[t] = "done"
          /\ outcome'[t] = "RuntimeError"
          /\ sent'[t] = <<>>
          /\ posts'[t] = <<>>
          /\ UNCHANGED <<limiterVars, clientVars, acquired>>]_vars
  /\ [](\A t \in Tasks : (~client /\ ~connecting) => pc[t] \in {"idle", "done"} \/ disturbed[t])

C25_Witness ==
  \E t \in Tasks :
    /\ last_call = "close"
    /\ ~client
    /\ pc[t] = "done"
    /\ outcome[t] = "RuntimeError"
    /\ ~disturbed[t]
    /\ sent[t] = <<>>
    /\ posts[t] = <<>>
    /\ refresh_count > 0
    /\ permits = fmc_max_connections

\* the step in which acquire() returns to _request
Admitted(t) == pc[t] # "sem_wait" /\ pc'[t] = "sem_wait"
\* task t is inside the rate limiter
InLimiter(t) == pc[t] \in {"rl_lock", "rl_sleep"}

\* C27: one request goes through its steps in order: it enters the rate
\* limiter first, asks for a permit only when acquire() has taken its token,
\* and sends its first call in the step that takes the permit; a task inside
\* the rate limiter holds no permit and has sent nothing.
C27_StepsInOrder ==
  /\ [][\A t \in Tasks : Calls(t) => pc'[t] \in {"rl_lock", "done"}]_vars
  /\ [][\A t \in Tasks : Admitted(t) =>
          /\ InLimiter(t)
          /\ tokens' = Refill(tokens, elapsed) - TOKEN
          /\ permits' = permits
          /\ sent'[t] = <<>>]_vars
  /\ [][\A t \in Tasks : (Issued(t) /\ IssuedCall(t) = "first") =>
          /\ pc[t] = "sem_wait"
          /\ permits > 0
          /\ permits' = permits - 1]_vars
  /\ [](\A t \in Tasks : (InLimiter(t) \/ pc[t] = "sem_wait") => sent[t] = <<>>)
  /\ [](permits = fmc_max_connections
                    - Cardinality({t \in Tasks : ~InLimiter(t) /\ InExchange(t)}))

C27_Witness ==
  \E t, u \in Tasks :
    /\ pc[t] = "rl_sleep"
    /\ sent[t] = <<>>
    /\ InExchange(u)
    /\ permits = 0

\* the step in which task t sends an authentication or refresh call
Posted(t) == Len(posts'[t]) = Len(posts[t]) + 1
\* the step in which connect() sends its generatetoken call
ConnectSends == ~connecting /\ connecting'

\* C28 as stated: every HTTP call the client sends, the generatetoken call of
\* connect() included, is sent from inside request dispatch by a task that
\* holds a permit.
C28_Claimed ==
  /\ [][~ConnectSends]_vars
  /\ [][\A t \in Tasks : (Issued(t) \/ Posted(t)) => InExchange(t)']_vars

\* C28, amended: every data call, every retry, and every refresh or
\* generatetoken call made while handling a 401 is sent from inside request
\* dispatch, by a task that has passed the rate limiter and holds a permit;
\* the generatetoken call of connect() is sent outside request dispatch, with
\* no rate-limiter token and no permit taken.
C28_DispatchChokePoint ==
  /\ [][\A t \in Tasks : (Issued(t) \/ Posted(t)) =>
          /\ pc[t] = "sem_wait" \/ InExchange(t)
          /\ InExchange(t)'
          /\ permits' = IF pc[t] = "sem_wait" THEN permits - 1 ELSE permits]_vars
  /\ [][\A t \in Tasks : Admitted(t) => tokens' = Refill(tokens, elapsed) - TOKEN]_vars
  /\ [](permits = fmc_max_connections - Cardinality(Exchanging) /\ permits >= 0)
  /\ [][ConnectSends => UNCHANGED <<limiterVars, permits, pc, sent, posts, acquired>>]_vars

C28_Witness ==
  \E t \in Tasks :
    /\ connecting
    /\ pc[t] = "http1"
    /\ permits = 0
    /\ access_token = NoToken

\* C30 as stated: the refresh counter stays within 0..3 in every state,
\* however requests that receive a 401 interleave.
C30_Claimed == refresh_count \in 0..max_refreshes

C30_Witness ==
  \E t, u \in Tasks :
    /\ t # u
    /\ refresh_count = max_refreshes + 1
    /\ posts[t] = <<"refreshtoken">>
    /\ posts[u] = <<"refreshtoken">>
    /\ pc[t] = "http2"
    /\ pc[u] = "http2"

\* the deployable devices check_deployment_status was given: none after the
\* soft degradation of a 403
Deployable(t) == IF FailedStatus(t) THEN <<>> ELSE all_items[t]
\* device d passes the name filter n
Listed(d, n) == n \in {None, ""} \/ lower(d.name) = lower(n)
NotUpToDate(devices) == {i \in 1..Len(devices) : devices[i].upToDate # JTrue}

\* C26: whatever devices are deployable and whatever the name filter, the
\* count of check_deployment_status is the number of listed devices,
\* allDevicesSynced is true exactly when every listed device has upToDate
\* true (so also when none is listed), and when it is false the summary
\* carries the number of listed devices that are not up to date; one device
\* with upToDate false gives allDevicesSynced false and 1 pending device.
C26_DeploymentStatus ==
  \A t \in Tasks :
    (call[t].op = "check_deployment_status" /\ result[t].kind = "status") =>
      LET v == result[t].value
          n == call[t].device_name
      IN
      /\ v.count = Len(v.devices)
      /\ v.count = Cardinality({i \in 1..Len(Deployable(t)) : Listed(Deployable(t)[i], n)})
      /\ \A i \in 1..Len(v.devices) : Listed(v.devices[i], n)
      /\ v.allDevicesSynced <=> NotUpToDate(v.devices) = {}
      /\ ~v.allDevicesSynced =>
            /\ v.summary.text = "device(s) have pending changes"
            /\ v.summary.pending = Cardinality(NotUpToDate(v.devices))
      /\ (v.count = 1 /\ v.devices[1].upToDate = JFalse) =>
            (~v.allDevicesSynced /\ v.summary.pending = 1)

C26_Witness ==
  \E t \in Tasks :
    /\ call[t] = CheckDeploymentStatus("ftd-01")
    /\ result[t].kind = "status"
    /\ Len(inventory) = 2
    /\ inventory[1].name = "ftd-02"
    /\ inventory[2].name = "FTD-01"
    /\ inventory[2].upToDate = JFalse
    /\ result[t].value.count = 1
    /\ ~result[t].value.allDevicesSynced
    /\ result[t].value.summary.pending = 1

\* the pages of a sequence of pages, one after the other
RECURSIVE Concat(_)
Concat(pages) == IF pages = <<>> THEN <<>> ELSE Head(pages) \o Concat(Tail(pages))

\* C29: the k-th page request (k = 0, 1, 2, ...) of get_all_items carries
\* offset 1000 * k and limit 1000, and expanded = true when asked for; a page
\* is requested only when the one before it has been received; the items
\* gathered and returned are the received pages one after the other, each
\* item once and in the controller's order.
C29_SequentialPages ==
  /\ [](\A t \in Tasks : \A k \in 1..Len(page_requests[t]) :
          /\ page_requests[t][k].offset = 1000 * (k - 1)
          /\ page_requests[t][k].limit = 1000
          /\ page_requests[t][k].expanded = IF call[t].expanded THEN "true" ELSE None)
  /\ [](\A t \in Tasks : call[t].op \notin {"none", "get_json"} =>
          /\ Len(received[t]) \in {Len(page_requests[t]) - 1, Len(page_requests[t])}
          /\ pc[t] # "idle" => Len(received[t]) = Len(page_requests[t]) - 1
          /\ \A k \in 1..Len(received[t]) : received[t][k] = Page(1000 * (k - 1))
          /\ all_items[t] = Concat(received[t])
          /\ all_items[t] = SubSeq(inventory, 1, Len(all_items[t]))
          /\ (GaveItems(t) /\ ~FailedStatus(t)) => result[t].value = Concat(received[t]))
  /\ [][\A t \in Tasks :
          (page_requests[t] # <<>> /\ page_requests'[t] # page_requests[t]) =>
             /\ GetsPage(t)
             /\ page_requests'[t] = Append(page_requests[t],
                                           Params(1000 * Len(page_requests[t]),
                                                  call[t].expanded))]_vars

C29_Witness ==
  \E t \in Tasks :
    /\ call[t] = GetAllItems(FALSE)
    /\ result[t].kind = "items"
    /\ Len(page_requests[t]) = 3
    /\ page_requests[t][3] = [limit |-> 1000, offset |-> 2000, expanded |-> None]
    /\ Len(received[t]) = 3
    /\ Len(result[t].value) = 2001
    /\ result[t].value = inventory

\* the token pairs the controller of SpecTok hands out, each in one answer
IssuedPairs == {<<r.access, r.refresh>> : r \in TokAuth}
StoredPair == <<access_token, refresh_token>>
\* the step in which a 204 to a refresh or authentication call is processed
Processes204 ==
  \/ AuthEnds /\ last_call' = "connected"
  \/ \E t \in Tasks : Refreshed(t)
  \/ \E t \in Tasks : pc[t] \in {"auth_max", "auth_try", "auth_exc"} /\ pc'[t] = "http2"

\* C31: however requests that refresh or re-authenticate interleave, the
\* stored access token and refresh token are a pair that one answer of the
\* controller carried, never the halves of two answers; the pair changes only
\* when a 204 is processed, which stores both halves of that answer, so the
\* pair left at the end is that of the answer processed last.
C31_PairFromOneResponse ==
  /\ [](StoredPair \in IssuedPairs \cup {<<NoToken, NoToken>>})
  /\ [][StoredPair' # StoredPair => (Processes204 /\ StoredPair' \in IssuedPairs)]_vars
  /\ [][Processes204 => StoredPair' \in IssuedPairs]_vars
  /\ [][\A t \in Tasks : Refreshed(t) => headers'[t] = access_token']_vars

C31_Witness ==
  \E t, u \in Tasks :
    /\ t # u
    /\ posts[t] = <<"refreshtoken">>
    /\ posts[u] = <<"refreshtoken">>
    /\ pc[t] = "http2"
    /\ pc[u] = "http2"
    /\ headers[t] = 1
    /\ headers[u] = 2
    /\ StoredPair = <<2, 2>>

\* C32 as stated: handling one 401 sends at most one refresh call and at most
\* one generatetoken call, whatever they are answered; a failed
\* re-authentication is raised to the caller with no retried data call.
C32_Claimed ==
  \A t \in Tasks :
    /\ Count(posts[t], "refreshtoken") <= 1
    /\ Count(posts[t], "generatetoken") <= 1

C32_Witness ==
  \E t \in Tasks :
    /\ Finished(t) /\ ~disturbed[t]
    /\ seen[t] = <<401, 200>>
    /\ posts[t] = <<"refreshtoken", "generatetoken", "generatetoken">>
    /\ sent[t] = <<"first", "retry401">>
    /\ outcome[t] = "response"

\* the listed devices of a result that are flagged as having pending changes
Flagged(devices) == {i \in 1..Len(devices) : devices[i].hasPendingChanges}

\* C33 as stated: in the output of check_deployment_status, allDevicesSynced
\* is false exactly when some listed device has hasPendingChanges true, and
\* the pending number of the summary is the number of such devices, also for
\* devices without an upToDate field.
C33_Claimed ==
  \A t \in Tasks :
    (call[t].op = "check_deployment_status" /\ result[t].kind = "status") =>
      LET v == result[t].value IN
      /\ ~v.allDevicesSynced <=> Flagged(v.devices) # {}
      /\ v.summary.pending = Cardinality(Flagged(v.devices))

C33_Witness ==
  \E t \in Tasks :
    /\ call[t] = CheckDeploymentStatus(None)
    /\ result[t].kind = "status"
    /\ inventory = <<Device(1, "FTD-01", None)>>
    /\ result[t].value.count = 1
    /\ ~result[t].value.devices[1].hasPendingChanges
    /\ ~result[t].value.allDevicesSynced
    /\ result[t].value.summary.pending = 1

====
